---------------------------- MODULE Spec2Model ----------------------------
(***************************************************************************)
(* A model of the lox-rs scanner (src/src/scanner.rs) and of the part of   *)
(* the driver that it talks to (src/src/main.rs): the process-wide         *)
(* HAD_ERROR cell, error/report, run and run_file.                         *)
(*                                                                         *)
(* The source text is a sequence of bytes.  An ASCII character is one      *)
(* byte, written as a one-character string; the two bytes of a non-ASCII   *)
(* character (U+00E9, UTF-8 C3 A9) are written "C3" and "A9".  Offsets     *)
(* (start, current) are byte offsets counted from 0, as in the code, so    *)
(* the byte at offset i is source[i + 1].                                  *)
(***************************************************************************)
EXTENDS Integers, Sequences, FiniteSets

VARIABLES
    source,      \* Scanner.source: the borrowed text, a sequence of bytes
    start,       \* Scanner.start
    current,     \* Scanner.current
    line,        \* Scanner.line
    tokens,      \* Scanner.tokens
    pc,          \* the place the running code has reached
    HAD_ERROR,   \* the OnceLock<bool>: <<>> when unset, <<b>> once set to b
    reports,     \* the lines report has printed, as [line, message] records
    fault,       \* why the process panicked ("none" while it has not)
    exitCode,    \* the exit status (-1 while the process runs)
    iterations,  \* how many times scan_tokens has entered its loop body
    scanners,    \* how many Scanner values this process has constructed
    firstTokens, \* what the first Scanner's scan_tokens returned
    spans,       \* the <<start, current>> of each add_token call, in order
    advanced     \* the characters direct calls of advance have returned

vars == <<source, start, current, line, tokens, pc, HAD_ERROR, reports,
          fault, exitCode, iterations, scanners, firstTokens, spans, advanced>>

-----------------------------------------------------------------------------
(* Bounds of the model.                                                    *)

\* The longest source text, in bytes.
MaxLen == 3

-----------------------------------------------------------------------------
(* Characters.                                                             *)

NUL == "NUL"          \* '\0'
QUOTE == "\""
BACKSLASH == "\\"
NEWLINE == "\n"
LeadByte == "C3"      \* first byte of a two-byte UTF-8 character
ContByte == "A9"      \* its continuation byte

\* The bytes source texts are drawn from: a representative of every branch
\* of scan_token's dispatch, and one non-ASCII character.
Alphabet ==
    {".", "+", "!", "=", "<", ">", "/", " ", NEWLINE, QUOTE, BACKSLASH,
     "1", "o", "r", "_", LeadByte, ContByte}

Digits == {"0", "1", "2", "3", "4", "5", "6", "7", "8", "9"}

Letters ==
    {"a", "b", "c", "d", "e", "f", "g", "h", "i", "j", "k", "l", "m",
     "n", "o", "p", "q", "r", "s", "t", "u", "v", "w", "x", "y", "z",
     "A", "B", "C", "D", "E", "F", "G", "H", "I", "J", "K", "L", "M",
     "N", "O", "P", "Q", "R", "S", "T", "U", "V", "W", "X", "Y", "Z"}

\* A digit test that also takes the decimal point.
is_numeric_OrDot(c) == c \in Digits \cup {"."}

\* char::is_numeric on a character read through a one-byte slice, which is
\* always ASCII: the decimal digits.
is_numeric(c) == c \in Digits

\* utils::is_alpha: an ASCII letter or an underscore.
is_alpha(c) == c \in Letters \cup {"_"}

\* utils::is_alphanumeric: a letter, a digit or an underscore.
is_alphanumeric(c) == is_alpha(c) \/ c \in Digits

\* A text is valid UTF-8 (a Rust &str always is): a lead byte is followed
\* by its continuation byte, and a continuation byte follows a lead byte.
ValidUtf8(s) ==
    \A i \in 1..Len(s) :
        /\ s[i] = LeadByte => (i < Len(s) /\ s[i + 1] = ContByte)
        /\ s[i] = ContByte => (i > 1 /\ s[i - 1] = LeadByte)

\* Longer texts, scanned besides the short ones: those of the scanner's
\* tests (12.34, class) and their neighbours (a number with a trailing dot,
\* an identifier that begins with a keyword, a comment line before a token).
NumberSample == <<"1", "2", ".", "3", "4">>
TrailingDotSample == <<"1", "2", ".">>
KeywordSample == <<"c", "l", "a", "s", "s">>
IdentifierSample == <<"c", "l", "a", "s", "s", "i", "f", "y">>
CommentSample ==
    <<"/", "/", " ", "c", "o", "m", "m", "e", "n", "t", NEWLINE, "+">>

Samples ==
    {NumberSample, TrailingDotSample, KeywordSample, IdentifierSample,
     CommentSample}

Sources ==
    {s \in UNION {[1..n -> Alphabet] : n \in 0..MaxLen} : ValidUtf8(s)}
        \cup Samples

-----------------------------------------------------------------------------
(* Slicing a &str by byte offsets.                                         *)

\* str::is_char_boundary.
is_char_boundary(s, i) ==
    \/ i = 0
    \/ i = Len(s)
    \/ (i < Len(s) /\ s[i + 1] # ContByte)

\* &s[a..b] panics unless a <= b <= len and both ends are char boundaries.
SliceOk(s, a, b) ==
    /\ a <= b
    /\ b <= Len(s)
    /\ is_char_boundary(s, a)
    /\ is_char_boundary(s, b)

Slice(s, a, b) == SubSeq(s, a + 1, b)

\* chars().collect().first() of a slice: its first character, '\0' if the
\* slice is empty.
FirstChar(sl) == IF sl = <<>> THEN NUL ELSE sl[1]

-----------------------------------------------------------------------------
(* Tokens.                                                                 *)

\* A token that does not take the line it is given.
Token_FirstLine(token_type, lexeme, ln) ==
    [token_type |-> token_type, lexeme |-> lexeme, line |-> 1]

\* Token::new.  A token type is <<name>>, or <<name, payload>> for the
\* three literal variants.
Token(token_type, lexeme, ln) ==
    [token_type |-> token_type, lexeme |-> lexeme, line |-> ln]

\* The KEYWORDS map.
KEYWORDS ==
    {[word |-> <<"a", "n", "d">>, token_type |-> <<"And">>],
     [word |-> <<"c", "l", "a", "s", "s">>, token_type |-> <<"Class">>],
     [word |-> <<"e", "l", "s", "e">>, token_type |-> <<"Else">>],
     [word |-> <<"f", "a", "l", "s", "e">>, token_type |-> <<"False">>],
     [word |-> <<"f", "o", "r">>, token_type |-> <<"For">>],
     [word |-> <<"f", "u", "n">>, token_type |-> <<"Fun">>],
     [word |-> <<"i", "f">>, token_type |-> <<"If">>],
     [word |-> <<"n", "i", "l">>, token_type |-> <<"Nil">>],
     [word |-> <<"o", "r">>, token_type |-> <<"Or">>],
     [word |-> <<"p", "r", "i", "n", "t">>, token_type |-> <<"Print">>],
     [word |-> <<"r", "e", "t", "u", "r", "n">>, token_type |-> <<"Return">>],
     [word |-> <<"s", "u", "p", "e", "r">>, token_type |-> <<"Super">>],
     [word |-> <<"t", "h", "i", "s">>, token_type |-> <<"This">>],
     [word |-> <<"t", "r", "u", "e">>, token_type |-> <<"True">>],
     [word |-> <<"v", "a", "r">>, token_type |-> <<"Var">>],
     [word |-> <<"w", "h", "i", "l", "e">>, token_type |-> <<"While">>]}

\* A lookup that finds a keyword the literal merely begins with.
get_keyword_token_Prefix(literal) ==
    {k.token_type : k \in {e \in KEYWORDS :
        /\ Len(e.word) <= Len(literal)
        /\ SubSeq(literal, 1, Len(e.word)) = e.word}}

\* get_keyword_token: the Option, as a set of at most one token type.
get_keyword_token(literal) ==
    {k.token_type : k \in {e \in KEYWORDS : e.word = literal}}

\* The single-character arms of scan_token's match.
SingleCharType ==
    [c \in {"(", ")", "{", "}", ",", ".", "-", "+", ";", "*"} |->
        CASE c = "(" -> <<"LeftParen">>
          [] c = ")" -> <<"RightParen">>
          [] c = "{" -> <<"LeftBrace">>
          [] c = "}" -> <<"RightBrace">>
          [] c = "," -> <<"Comma">>
          [] c = "." -> <<"Dot">>
          [] c = "-" -> <<"Minus">>
          [] c = "+" -> <<"Plus">>
          [] c = ";" -> <<"Semicolon">>
          [] c = "*" -> <<"Star">>]

\* The arms of scan_token's match that look at one more character: the
\* token type when matches('=') succeeds, and when it does not.
OperatorChars == {"!", "=", "<", ">"}

TwoCharType(c) ==
    CASE c = "!" -> <<"BangEqual">>
      [] c = "=" -> <<"EqualEqual">>
      [] c = "<" -> <<"LessEqual">>
      [] c = ">" -> <<"GreaterEqual">>

OneCharType(c) ==
    CASE c = "!" -> <<"Bang">>
      [] c = "=" -> <<"Equal">>
      [] c = "<" -> <<"Less">>
      [] c = ">" -> <<"Greater">>

Whitespace == {" ", "\r", "\t"}

-----------------------------------------------------------------------------
(* str::parse::<f64> on a lexeme of digits and dots.                       *)

DigitValue(c) ==
    CASE c = "0" -> 0 [] c = "1" -> 1 [] c = "2" -> 2 [] c = "3" -> 3
      [] c = "4" -> 4 [] c = "5" -> 5 [] c = "6" -> 6 [] c = "7" -> 7
      [] c = "8" -> 8 [] c = "9" -> 9

RECURSIVE Count(_, _)
Count(s, set) ==
    IF s = <<>> THEN 0
    ELSE (IF s[1] \in set THEN 1 ELSE 0) + Count(Tail(s), set)

\* The parse succeeds on [digits][.][digits] with at least one digit.
ParseOk(str_value) ==
    /\ \A i \in 1..Len(str_value) : str_value[i] \in Digits \cup {"."}
    /\ Count(str_value, {"."}) <= 1
    /\ Count(str_value, Digits) >= 1

RECURSIVE Mantissa(_)
Mantissa(s) ==
    IF s = <<>> THEN 0
    ELSE IF s[Len(s)] = "." THEN Mantissa(SubSeq(s, 1, Len(s) - 1))
    ELSE 10 * Mantissa(SubSeq(s, 1, Len(s) - 1)) + DigitValue(s[Len(s)])

RECURSIVE FractionDigits(_)
FractionDigits(s) ==
    IF s = <<>> THEN 0
    ELSE IF s[Len(s)] = "." THEN 0
    ELSE IF Count(s, {"."}) = 0 THEN 0
    ELSE 1 + FractionDigits(SubSeq(s, 1, Len(s) - 1))

RECURSIVE Normal(_, _)
Normal(m, k) ==
    IF k > 0 /\ m % 10 = 0 THEN Normal(m \div 10, k - 1) ELSE <<m, k>>

\* The value parsed: <<m, k>> stands for m / 10^k, in lowest terms of ten,
\* so that equal numbers are equal values (1.10 = 1.1).
ParseF64(str_value) == Normal(Mantissa(str_value), FractionDigits(str_value))

-----------------------------------------------------------------------------
(* The process-wide cell.                                                  *)

\* OnceLock::set succeeds only on an empty cell.
OnceLockSetOk(cell) == cell = <<>>

\* The value report stores in HAD_ERROR.
ReportedValue == FALSE

\* HAD_ERROR.get().is_some_and(|e| *e), the test run_file makes.
HadErrorIsTrue(cell) == cell # <<>> /\ cell[1]

-----------------------------------------------------------------------------
(* The scanner's cursor primitives, as functions of the read head.         *)

\* An end test that lets the read head reach one past the last byte.
is_at_end_Late(cur) == cur > Len(source)

is_at_end(cur) == cur >= Len(source)

\* advance: the slice it takes, the character it returns, the new current.
advance_ok(cur) == SliceOk(source, cur, cur + 1)
advance_char(cur) == FirstChar(Slice(source, cur, cur + 1))
\* advance without its increment of current.
advance_to_Stuck(cur) == cur
\* advance moving the read head by two.
advance_to_Twice(cur) == cur + 2
\* advance as written.
advance_to(cur) == cur + 1

\* peek: no slice is taken at end of input.
peek_ok(cur) == is_at_end(cur) \/ SliceOk(source, cur, cur + 1)
peek(cur) == IF is_at_end(cur) THEN NUL ELSE FirstChar(Slice(source, cur, cur + 1))

\* peek_next.
peek_next_ok(cur) == cur + 1 >= Len(source) \/ SliceOk(source, cur + 1, cur + 2)
\* peek_next looking at the read head instead of one character beyond it.
peek_next_Current(cur) == peek(cur)
\* peek_next as written.
peek_next(cur) ==
    IF cur + 1 >= Len(source) THEN NUL
    ELSE FirstChar(Slice(source, cur + 1, cur + 2))

\* matches: whether it consumes the character, and the new current.
matches_ok(cur) == is_at_end(cur) \/ SliceOk(source, cur, cur + 1)
\* matches without its comparison with the expected character.
matches_Any(cur, expected) == ~is_at_end(cur)
\* matches as written.
matches(cur, expected) ==
    /\ ~is_at_end(cur)
    /\ ~(FirstChar(Slice(source, cur, cur + 1)) # expected)
matches_to(cur, expected) == IF matches(cur, expected) THEN cur + 1 ELSE cur

-----------------------------------------------------------------------------
(* The state after construction: a process that has read a source text and *)
(* built a Scanner over it (Scanner::new), about to call scan_tokens.      *)

Init ==
    /\ source \in Sources
    /\ start = 0
    /\ current = 0
    /\ line = 1
    /\ tokens = <<>>
    /\ pc = "loop"
    /\ HAD_ERROR = <<>>
    /\ reports = <<>>
    /\ fault = "none"
    /\ exitCode = -1
    /\ iterations = 0
    /\ scanners = 1
    /\ firstTokens = <<>>
    /\ spans = <<>>
    /\ advanced = <<>>

-----------------------------------------------------------------------------
(* What one step of the scanner leaves behind.                             *)

\* The scanner moves to place p with read head cur, line counter ln and
\* token list toks; the cell and the printed reports become had and reps.
\* When toks has one token more (add_token has pushed), the range of its
\* lexeme is recorded.
Goto(p, cur, ln, toks, had, reps) ==
    /\ pc' = p
    /\ current' = cur
    /\ line' = ln
    /\ tokens' = toks
    /\ HAD_ERROR' = had
    /\ reports' = reps
    /\ fault' = "none"
    /\ spans' = IF Len(toks) > Len(tokens)
                THEN Append(spans, <<start, cur>>)
                ELSE spans
    /\ UNCHANGED <<source, start, exitCode, iterations, scanners, firstTokens,
                   advanced>>

\* A panic: the process unwinds with the read head at cur; what report has
\* printed before the panic stays printed.
Panic(why, cur, ln, reps) ==
    /\ pc' = "panic"
    /\ fault' = why
    /\ current' = cur
    /\ line' = ln
    /\ reports' = reps
    /\ exitCode' = 101
    /\ UNCHANGED <<source, start, tokens, HAD_ERROR, iterations, scanners,
                   firstTokens, spans, advanced>>

\* add_token taking its lexeme from the beginning of the source.
add_token_FromZero(token_type, cur, ln) ==
    IF SliceOk(source, 0, cur)
    THEN Goto("loop", cur, ln,
              Append(tokens, Token(token_type, Slice(source, 0, cur), ln)),
              HAD_ERROR, reports)
    ELSE Panic("slice", cur, ln, reports)

\* add_token, then back to the loop of scan_tokens: the lexeme is the
\* slice source[start..current].
add_token(token_type, cur, ln) ==
    IF SliceOk(source, start, cur)
    THEN Goto("loop", cur, ln,
              Append(tokens, Token(token_type, Slice(source, start, cur), ln)),
              HAD_ERROR, reports)
    ELSE Panic("slice", cur, ln, reports)

\* error, which calls report: print the line, then HAD_ERROR.set(..).unwrap().
\* The scanner goes on at place p when the call returns.
error(ln, message, p, cur) ==
    LET printed == Append(reports, [line |-> ln, message |-> message])
    IN  IF OnceLockSetOk(HAD_ERROR)
        THEN Goto(p, cur, ln, tokens, <<ReportedValue>>, printed)
        ELSE Panic("unwrap", cur, ln, printed)

-----------------------------------------------------------------------------
(* Scanner::scan_tokens: one test of the loop condition.                   *)

\* The end-marker stamped with the line the scan began on.
EofToken_FirstLine(ln) == Token(<<"Eof">>, <<>>, 1)

\* The end-marker pushed after the loop.
EofToken(ln) == Token(<<"Eof">>, <<>>, ln)

scan_tokens ==
    /\ pc = "loop"
    /\ IF is_at_end(current)
       THEN /\ tokens' = Append(tokens, EofToken(line))
            /\ pc' = "returned"
            /\ UNCHANGED <<start, iterations>>
       ELSE /\ start' = current
            /\ iterations' = iterations + 1
            /\ pc' = "scan_token"
            /\ UNCHANGED tokens
    /\ UNCHANGED <<source, current, line, HAD_ERROR, reports, fault, exitCode,
                   scanners, firstTokens, spans, advanced>>

(* Scanner::scan_token: advance, then the match on the character.          *)

scan_token ==
    /\ pc = "scan_token"
    /\ IF ~advance_ok(current)
       THEN Panic("slice", current, line, reports)
       ELSE LET char == advance_char(current)
                cur == advance_to(current)
            IN  CASE char \in DOMAIN SingleCharType ->
                        add_token(SingleCharType[char], cur, line)
                  [] char \in OperatorChars ->
                        IF ~matches_ok(cur)
                        THEN Panic("slice", cur, line, reports)
                        ELSE IF matches(cur, "=")
                        THEN add_token(TwoCharType(char), matches_to(cur, "="), line)
                        ELSE add_token(OneCharType(char), matches_to(cur, "="), line)
                  [] char = "/" ->
                        IF ~matches_ok(cur)
                        THEN Panic("slice", cur, line, reports)
                        ELSE IF matches(cur, "/")
                        THEN Goto("comment", matches_to(cur, "/"), line, tokens,
                                  HAD_ERROR, reports)
                        ELSE add_token(<<"Slash">>, matches_to(cur, "/"), line)
                  [] char \in Whitespace ->
                        Goto("loop", cur, line, tokens, HAD_ERROR, reports)
                  [] char = NEWLINE ->
                        Goto("loop", cur, line + 1, tokens, HAD_ERROR, reports)
                  [] char = QUOTE ->
                        Goto("string", cur, line, tokens, HAD_ERROR, reports)
                  [] OTHER ->
                        IF is_numeric(char)
                        THEN Goto("number", cur, line, tokens, HAD_ERROR, reports)
                        ELSE IF is_alpha(char)
                        THEN Goto("identifier", cur, line, tokens, HAD_ERROR, reports)
                        ELSE error(line, "Unexpected character.", "loop", cur)

(* The comment loop of scan_token: one test of its condition.              *)

\* A comment loop that stops at end of input only.
comment_continues_PastNewline(cur) == ~is_at_end(cur)

\* The loop condition as written.
comment_continues(cur) == peek(cur) # NEWLINE /\ ~is_at_end(cur)

scan_comment ==
    /\ pc = "comment"
    /\ IF ~peek_ok(current)
       THEN Panic("slice", current, line, reports)
       ELSE IF comment_continues(current)
       THEN IF advance_ok(current)
            THEN Goto("comment", advance_to(current), line, tokens, HAD_ERROR,
                      reports)
            ELSE Panic("slice", current, line, reports)
       ELSE Goto("loop", current, line, tokens, HAD_ERROR, reports)

(* Scanner::scan_identifier: one test of the loop condition; when it is    *)
(* false, the keyword lookup and add_token.                                *)

scan_identifier ==
    /\ pc = "identifier"
    /\ IF ~peek_ok(current)
       THEN Panic("slice", current, line, reports)
       ELSE IF is_alphanumeric(peek(current))
       THEN IF advance_ok(current)
            THEN Goto("identifier", advance_to(current), line, tokens,
                      HAD_ERROR, reports)
            ELSE Panic("slice", current, line, reports)
       ELSE IF ~SliceOk(source, start, current)
       THEN Panic("slice", current, line, reports)
       ELSE LET value == Slice(source, start, current)
                found == get_keyword_token(value)
            IN  IF found = {}
                THEN add_token(<<"Identifier", value>>, current, line)
                ELSE add_token(CHOOSE t \in found : TRUE, current, line)

(* Scanner::scan_number_literal.  The end of the lexeme: parse it (the      *)
(* unwrap panics when the parse fails) and add the Number token.            *)

number_token(cur) ==
    IF ~SliceOk(source, start, cur)
    THEN Panic("slice", cur, line, reports)
    ELSE IF ~ParseOk(Slice(source, start, cur))
    THEN Panic("parse", cur, line, reports)
    ELSE add_token(<<"Number", ParseF64(Slice(source, start, cur))>>, cur, line)

(* The first loop (the integer part): one test of its condition; when it   *)
(* is false, the look for a fractional part.                               *)

scan_number_literal ==
    /\ pc = "number"
    /\ IF ~peek_ok(current)
       THEN Panic("slice", current, line, reports)
       ELSE IF is_numeric(peek(current))
       THEN IF advance_ok(current)
            THEN Goto("number", advance_to(current), line, tokens, HAD_ERROR,
                      reports)
            ELSE Panic("slice", current, line, reports)
       ELSE IF peek(current) = "."
       THEN IF ~peek_next_ok(current)
            THEN Panic("slice", current, line, reports)
            ELSE IF is_numeric(peek_next(current))
            THEN IF advance_ok(current)
                 THEN Goto("fraction", advance_to(current), line, tokens,
                           HAD_ERROR, reports)
                 ELSE Panic("slice", current, line, reports)
            ELSE number_token(current)
       ELSE number_token(current)

(* The second loop (the fractional part): one test of its condition.       *)

scan_number_fraction ==
    /\ pc = "fraction"
    /\ IF ~peek_ok(current)
       THEN Panic("slice", current, line, reports)
       ELSE IF is_numeric(peek(current))
       THEN IF advance_ok(current)
            THEN Goto("fraction", advance_to(current), line, tokens, HAD_ERROR,
                      reports)
            ELSE Panic("slice", current, line, reports)
       ELSE number_token(current)

(* Scanner::scan_string_literal: one test of the loop condition; when it   *)
(* is false, the unterminated-string report or the String token.           *)

\* The loop body without its count of newlines.
string_line_Same(cur, ln) == ln

\* The line counter after the loop body has looked at the character at cur.
string_line(cur, ln) == IF peek(cur) = NEWLINE THEN ln + 1 ELSE ln

\* The payload: the lexeme with the surrounding quotes trimmed.
string_value_ok(cur) == SliceOk(source, start + 1, cur - 1)
\* The payload without the trim of the quotes.
string_value_Untrimmed(cur) == Slice(source, start, cur)
\* The payload as written.
string_value(cur) == Slice(source, start + 1, cur - 1)

scan_string_literal ==
    /\ pc = "string"
    /\ IF ~peek_ok(current)
       THEN Panic("slice", current, line, reports)
       ELSE IF peek(current) # QUOTE /\ ~is_at_end(current)
       THEN LET ln == string_line(current, line)
            IN  IF advance_ok(current)
                THEN Goto("string", advance_to(current), ln, tokens, HAD_ERROR,
                          reports)
                ELSE Panic("slice", current, ln, reports)
       ELSE IF is_at_end(current)
       THEN error(line, "Unterminated string.", "loop", current)
       ELSE IF ~advance_ok(current)
       THEN Panic("slice", current, line, reports)
       ELSE LET cur == advance_to(current)
            IN  IF ~string_value_ok(cur)
                THEN Panic("slice", cur, line, reports)
                ELSE add_token(<<"String", string_value(cur)>>, cur, line)

-----------------------------------------------------------------------------
(* The driver.                                                             *)

\* Lox::run_file after run has returned: exit 65 if HAD_ERROR reads true.
run_file ==
    /\ pc = "returned"
    /\ pc' = "exit"
    /\ exitCode' = IF HadErrorIsTrue(HAD_ERROR) THEN 65 ELSE 0
    /\ UNCHANGED <<source, start, current, line, tokens, HAD_ERROR, reports,
                   fault, iterations, scanners, firstTokens, spans, advanced>>

\* How many Scanner values a process that scans a text again constructs.
MaxScanners == 2

\* Scanner::new over the same text, in the same process, once the scan
\* before it has returned; the caller keeps what the first scan returned.
new_scanner ==
    /\ pc = "returned"
    /\ scanners < MaxScanners
    /\ scanners' = scanners + 1
    /\ firstTokens' = IF scanners = 1 THEN tokens ELSE firstTokens
    /\ start' = 0
    /\ current' = 0
    /\ line' = 1
    /\ tokens' = <<>>
    /\ spans' = <<>>
    /\ iterations' = 0
    /\ pc' = "loop"
    /\ UNCHANGED <<source, HAD_ERROR, reports, fault, exitCode, advanced>>

-----------------------------------------------------------------------------
(* Lox::run_prompt.                                                        *)

\* What read_line hands back: the text up to and including the first
\* newline, or what is left of the input when it ends without one.
PromptLines ==
    {s \in Sources : \A i \in 1..(Len(s) - 1) : s[i] # NEWLINE}

\* input.trim().is_empty(): nothing but white space.
trim_is_empty(input) ==
    \A i \in 1..Len(input) : input[i] \in Whitespace \cup {NEWLINE}

\* A process started in prompt mode: no Scanner yet, about to read a line.
InitPrompt ==
    /\ source = <<>>
    /\ start = 0
    /\ current = 0
    /\ line = 1
    /\ tokens = <<>>
    /\ pc = "prompt"
    /\ HAD_ERROR = <<>>
    /\ reports = <<>>
    /\ fault = "none"
    /\ exitCode = -1
    /\ iterations = 0
    /\ scanners = 0
    /\ firstTokens = <<>>
    /\ spans = <<>>
    /\ advanced = <<>>

\* The top of the loop: read a line; leave the loop (and the process) on a
\* line of white space, otherwise run it: Scanner::new over the line.
run_prompt_read ==
    /\ pc = "prompt"
    /\ \E input \in PromptLines :
        IF trim_is_empty(input)
        THEN /\ pc' = "exit"
             /\ exitCode' = 0
             /\ UNCHANGED <<source, start, current, line, tokens, iterations,
                            scanners>>
        ELSE /\ pc' = "loop"
             /\ source' = input
             /\ start' = 0
             /\ current' = 0
             /\ line' = 1
             /\ tokens' = <<>>
             /\ iterations' = 0
             /\ scanners' = scanners + 1
             /\ UNCHANGED exitCode
    /\ spans' = <<>>
    /\ UNCHANGED <<HAD_ERROR, reports, fault, firstTokens, advanced>>

\* After run has returned: HAD_ERROR.set(false).unwrap(), then back to the
\* top of the loop; the Scanner and the line have gone out of scope.
run_prompt_reset ==
    /\ pc = "returned"
    /\ IF OnceLockSetOk(HAD_ERROR)
       THEN /\ HAD_ERROR' = <<FALSE>>
            /\ pc' = "prompt"
            /\ source' = <<>>
            /\ start' = 0
            /\ current' = 0
            /\ line' = 1
            /\ tokens' = <<>>
            /\ spans' = <<>>
            /\ iterations' = 0
            /\ UNCHANGED <<fault, exitCode>>
       ELSE /\ pc' = "panic"
            /\ fault' = "reset"
            /\ exitCode' = 101
            /\ UNCHANGED <<source, start, current, line, tokens, spans,
                           iterations, HAD_ERROR>>
    /\ UNCHANGED <<reports, scanners, firstTokens, advanced>>

-----------------------------------------------------------------------------
(* Scanner::advance called on its own, as tests::test_advance does.        *)

\* A fresh Scanner whose owner is about to call advance.
InitAdvance ==
    /\ source \in Sources
    /\ start = 0
    /\ current = 0
    /\ line = 1
    /\ tokens = <<>>
    /\ pc = "advance"
    /\ HAD_ERROR = <<>>
    /\ reports = <<>>
    /\ fault = "none"
    /\ exitCode = -1
    /\ iterations = 0
    /\ scanners = 1
    /\ firstTokens = <<>>
    /\ spans = <<>>
    /\ advanced = <<>>

\* One call of advance, wherever the read head is: the one-byte slice at
\* current (which panics when it is out of range or off a char boundary),
\* then current += 1 and the character of the slice is returned.
advance ==
    /\ pc = "advance"
    /\ IF advance_ok(current)
       THEN /\ current' = advance_to(current)
            /\ advanced' = Append(advanced, advance_char(current))
            /\ UNCHANGED <<source, start, line, tokens, pc, HAD_ERROR,
                           reports, fault, exitCode, iterations, scanners,
                           firstTokens, spans>>
       ELSE Panic("slice", current, line, reports)

-----------------------------------------------------------------------------
(* The specifications.                                                     *)

\* A step of the scanner.
Scan ==
    \/ scan_tokens
    \/ scan_token
    \/ scan_comment
    \/ scan_identifier
    \/ scan_number_literal
    \/ scan_number_fraction
    \/ scan_string_literal

\* lox-rs run on a file: one scan, then the exit status.
Next == Scan \/ run_file

Spec == Init /\ [][Next]_vars

\* A process that scans the same text with one fresh Scanner after another.
NextTwice == Scan \/ new_scanner

SpecTwice == Init /\ [][NextTwice]_vars

\* lox-rs run without a script: the prompt loop.
NextPrompt == run_prompt_read \/ Scan \/ run_prompt_reset

SpecPrompt == InitPrompt /\ [][NextPrompt]_vars

\* Calls of advance on a fresh Scanner, one after another.
NextAdvance == advance

SpecAdvance == InitAdvance /\ [][NextAdvance]_vars

-----------------------------------------------------------------------------
(* Properties.                                                             *)

Last(s) == s[Len(s)]

IsAscii(s) == \A i \in 1..Len(s) : s[i] \notin {LeadByte, ContByte}

NewlinesIn(s) == Count(s, {NEWLINE})

EofCount(toks) == Cardinality({i \in 1..Len(toks) : toks[i].token_type = <<"Eof">>})

\* scan_tokens has returned to its caller.
Returned == pc \in {"returned", "exit"}

\* C1: once scan_tokens has returned on a fresh Scanner, whatever the input
\* text, the token sequence is non-empty, holds exactly one Eof token, that
\* token is the last element, its lexeme is empty and its line is the
\* scanner's line counter at the end of the loop, which is 1 + the number of
\* newline characters consumed (all those of the text); before the return
\* the sequence holds no Eof token.
C1_EofLast ==
    /\ Returned =>
        /\ tokens # <<>>
        /\ EofCount(tokens) = 1
        /\ Last(tokens).token_type = <<"Eof">>
        /\ Last(tokens).lexeme = <<>>
        /\ Last(tokens).line = line
        /\ line = 1 + NewlinesIn(source)
        /\ current = Len(source)
    /\ ~Returned => EofCount(tokens) = 0

\* C1 witness: a scan has returned several tokens after consuming a newline.
C1_Witness ==
    /\ pc = "returned"
    /\ Len(tokens) >= 2
    /\ Last(tokens).line = 2

\* C2: on an input whose only defects are lexical errors (unrecognized
\* characters, an unterminated string), however many, scan_tokens returns
\* normally: the process never aborts.
C2_ScanReturnsDespiteErrors == IsAscii(source) => pc # "panic"

\* The variant of the scan: the bytes left to read, then the place reached.
Variant ==
    4 * (Len(source) - current)
    + CASE pc \in {"comment", "identifier", "number", "fraction", "string"} -> 3
        [] pc = "loop" -> 2
        [] pc \in {"scan_token", "returned"} -> 1
        [] OTHER -> 0

\* C3: scan_tokens terminates on every input.  Each pass of the top-level
\* loop (start = current; scan_token) that comes back to the loop has moved
\* current forward by at least 1 and never past length(source), so the loop
\* body is entered at most length(source) times, and the loop ends with
\* current = length(source); every step of the scan decreases a variant that
\* is never negative, so no inner loop runs for ever either.  (A pass that
\* panics comes back to no loop: it ends the process where it stands.)
C3_Terminates ==
    /\ [](/\ current <= Len(source)
          /\ pc \notin {"scan_token", "panic"} => iterations <= current
          /\ iterations <= Len(source)
          /\ (pc = "loop" /\ iterations > 0) => start + 1 <= current
          /\ Returned => current = Len(source)
          /\ Variant >= 0)
    /\ [][Variant' < Variant]_vars

\* C3 witness: a scan of three bytes has returned after two passes of the loop.
C3_Witness ==
    /\ pc = "returned"
    /\ Len(source) = 3
    /\ iterations = 2

\* A character that matches no branch of scan_token's dispatch.
Unrecognized(c) ==
    /\ c \notin DOMAIN SingleCharType
    /\ c \notin OperatorChars \cup {"/", NEWLINE, QUOTE} \cup Whitespace
    /\ c \notin Digits \cup Letters \cup {"_"}
    /\ c \notin {LeadByte, ContByte}

\* C4: every occurrence of an unrecognized character is reported exactly
\* once, with the message "Unexpected character." and the line it occurs
\* on, emits no token, and scanning resumes at the next character.
C4_EveryUnexpectedCharReported ==
    [][(pc = "scan_token" /\ ~is_at_end(current)
            /\ Unrecognized(source[current + 1]))
        => /\ pc' = "loop"
           /\ current' = current + 1
           /\ tokens' = tokens
           /\ reports' = Append(reports, [line |-> line,
                                          message |-> "Unexpected character."])]_vars

\* C5: malformed input never aborts the scan: the one-byte slices taken by
\* advance, peek, peek_next and matches never fault, non-ASCII text included.
C5_NoSliceFault == ~(pc = "panic" /\ fault = "slice")

\* C6: after a scan in which report was invoked at least once HAD_ERROR
\* reads true, so that run_file exits with 65, and it does not read true
\* after a scan with no error.
C6_HadErrorAfterReport ==
    /\ Returned => (HadErrorIsTrue(HAD_ERROR) <=> reports # <<>>)
    /\ pc = "exit" => (exitCode = 65 <=> reports # <<>>)

\* C7: scanning the same text twice, with two fresh Scanners one after the
\* other in the same process, yields the same token sequence both times,
\* for every text, those with lexical errors included.
C7_SameTokensTwice ==
    (scanners = 2 /\ pc \in {"returned", "panic"})
        => (pc = "returned" /\ tokens = firstTokens)

\* The line an unterminated string is reported on: the line of its opening
\* quote (at offset start) plus the newlines after that quote.
UnterminatedLine ==
    (1 + NewlinesIn(SubSeq(source, 1, start)))
    + NewlinesIn(SubSeq(source, start + 2, Len(source)))

UnterminatedCount ==
    Cardinality({i \in 1..Len(reports) :
                    reports[i].message = "Unterminated string."})

\* C8: when the input ends inside a string literal, no token is emitted for
\* that lexeme (the token list stays as it was before the opening quote, up
\* to the report), exactly one "Unterminated string." report is made, with
\* the line counter reached at end of input (the opening line + the newlines
\* after the opening quote), the cursor is left at current = length(source),
\* and the loop then appends Eof to those tokens and returns.
C8_UnterminatedString ==
    /\ [](UnterminatedCount <= 1)
    /\ [][/\ (pc = "scan_token" /\ ~is_at_end(current)
                /\ source[current + 1] = QUOTE)
             => (tokens' = tokens /\ reports' = reports)
          /\ (pc = "string" /\ ~is_at_end(current)
                /\ source[current + 1] # QUOTE)
             => (tokens' = tokens /\ reports' = reports)
          /\ (pc = "string" /\ is_at_end(current))
             => /\ source[start + 1] = QUOTE
                /\ tokens' = tokens
                /\ current' = Len(source)
                /\ reports' = Append(reports,
                                     [line |-> UnterminatedLine,
                                      message |-> "Unterminated string."])
          /\ (pc = "loop" /\ current = Len(source) /\ UnterminatedCount = 1)
             => /\ tokens' = Append(tokens, Token(<<"Eof">>, <<>>, line))
                /\ pc' = "returned"]_vars

\* C8 witness: the scan of a text that ends inside a string literal opened
\* after one token, with a newline in it, has returned that token and Eof.
C8_Witness ==
    /\ pc = "returned"
    /\ reports = <<[line |-> 2, message |-> "Unterminated string."]>>
    /\ Len(tokens) = 2
    /\ tokens[1].line = 1

\* C9: for c among ! = < >, when the character right after c is '=', the
\* scanner consumes both and emits one token of the combined kind with the
\* two-character lexeme; when the next character is another (ASCII)
\* character or the input has ended, it emits the one-character kind with
\* the one-character lexeme and leaves the next character unconsumed.
C9_TwoCharOperators ==
    [][(pc = "scan_token" /\ ~is_at_end(current)
            /\ source[current + 1] \in {"!", "=", "<", ">"}
            /\ (current + 2 <= Len(source) => source[current + 2] # LeadByte))
        => LET c == source[current + 1]
               combined == CASE c = "!" -> <<"BangEqual">>
                             [] c = "=" -> <<"EqualEqual">>
                             [] c = "<" -> <<"LessEqual">>
                             [] c = ">" -> <<"GreaterEqual">>
               single == CASE c = "!" -> <<"Bang">>
                           [] c = "=" -> <<"Equal">>
                           [] c = "<" -> <<"Less">>
                           [] c = ">" -> <<"Greater">>
           IN  /\ pc' = "loop"
               /\ IF current + 2 <= Len(source) /\ source[current + 2] = "="
                  THEN /\ current' = current + 2
                       /\ tokens' = Append(tokens, Token(combined, <<c, "=">>, line))
                  ELSE /\ current' = current + 1
                       /\ tokens' = Append(tokens, Token(single, <<c>>, line))]_vars

\* C9 witness: "<=<" has been scanned to LessEqual, Less, Eof.
C9_Witness ==
    /\ pc = "returned"
    /\ Len(tokens) = 3
    /\ tokens[1].token_type = <<"LessEqual">>
    /\ tokens[1].lexeme = <<"<", "=">>
    /\ tokens[2].token_type = <<"Less">>

\* A text that is one terminated string literal and nothing else.
StringLiteralOnly(s) ==
    /\ Len(s) >= 2
    /\ s[1] = QUOTE
    /\ s[Len(s)] = QUOTE
    /\ \A i \in 2..(Len(s) - 1) : s[i] # QUOTE

\* C10: the step that closes a string literal emits exactly one String token
\* whose payload is the text strictly between the opening quote and the
\* first quote after it (quotes stripped; a backslash is an ordinary
\* character and does not keep the string open) and whose lexeme is that
\* text with both quotes; the scan of a text that is only such a literal
\* returns exactly two tokens, the String and Eof.
C10_StringLiteral ==
    /\ []((Returned /\ StringLiteralOnly(source))
            => /\ Len(tokens) = 2
               /\ tokens[1].token_type
                    = <<"String", SubSeq(source, 2, Len(source) - 1)>>
               /\ tokens[1].lexeme = source
               /\ tokens[2].token_type = <<"Eof">>)
    /\ [][(pc = "string" /\ ~is_at_end(current) /\ source[current + 1] = QUOTE)
           => /\ source[start + 1] = QUOTE
              /\ \A i \in (start + 2)..current : source[i] # QUOTE
              /\ tokens' = Append(tokens,
                                  Token(<<"String", SubSeq(source, start + 2, current)>>,
                                        SubSeq(source, start + 1, current + 1),
                                        line))
              /\ current' = current + 1
              /\ pc' = "loop"]_vars

\* C10 witness: the text quote, backslash, quote has been scanned to a
\* String whose payload is the backslash, then Eof.
C10_Witness ==
    /\ pc = "returned"
    /\ source = <<QUOTE, BACKSLASH, QUOTE>>
    /\ Len(tokens) = 2
    /\ tokens[1].token_type = <<"String", <<BACKSLASH>>>>

\* The token types of a token list, in order.
TypesOf(toks) == [i \in 1..Len(toks) |-> toks[i].token_type]

\* C11: in the number sub-scan, at the end of the integer part, a '.' is
\* consumed only if the character after it is a digit (the scan goes on into
\* the fraction); a '.' followed by another (ASCII) character or by the end
\* of input is left unconsumed, the Number token covers the digits before it,
\* and the next pass of the loop emits the '.' as a Dot token.  "12.34" gives
\* Number 12.34 over the whole text, then Eof; "12." gives Number 12, Dot, Eof.
C11_FractionNeedsDigit ==
    /\ []((Returned /\ source = NumberSample)
            => /\ TypesOf(tokens) = <<<<"Number", <<1234, 2>>>>, <<"Eof">>>>
               /\ tokens[1].lexeme = NumberSample)
    /\ []((Returned /\ source = TrailingDotSample)
            => /\ TypesOf(tokens) = <<<<"Number", <<12, 0>>>>, <<"Dot">>, <<"Eof">>>>
               /\ tokens[1].lexeme = <<"1", "2">>
               /\ tokens[2].lexeme = <<".">>)
    /\ [][/\ (pc = "number" /\ ~is_at_end(current)
                /\ source[current + 1] = "."
                /\ (current + 2 <= Len(source) => source[current + 2] # LeadByte))
             => IF current + 2 <= Len(source) /\ source[current + 2] \in Digits
                THEN /\ pc' = "fraction"
                     /\ current' = current + 1
                     /\ tokens' = tokens
                ELSE /\ pc' = "loop"
                     /\ current' = current
                     /\ Len(tokens') = Len(tokens) + 1
                     /\ Last(tokens').token_type[1] = "Number"
                     /\ Last(tokens').lexeme = SubSeq(source, start + 1, current)
                     /\ \A i \in (start + 1)..current : source[i] \in Digits
          /\ (pc = "scan_token" /\ ~is_at_end(current)
                /\ source[current + 1] = ".")
             => /\ pc' = "loop"
                /\ current' = current + 1
                /\ Len(tokens') = Len(tokens) + 1
                /\ Last(tokens').token_type = <<"Dot">>
                /\ Last(tokens').lexeme = <<".">>]_vars

\* C11 witness: "12." has been scanned to Number 12, Dot, Eof.
C11_Witness ==
    /\ pc = "returned"
    /\ source = TrailingDotSample
    /\ Len(tokens) = 3
    /\ tokens[1].token_type = <<"Number", <<12, 0>>>>
    /\ tokens[2].token_type = <<"Dot">>

\* The 16 reserved words.
ReservedWords ==
    {<<"a", "n", "d">>, <<"c", "l", "a", "s", "s">>, <<"e", "l", "s", "e">>,
     <<"f", "a", "l", "s", "e">>, <<"f", "o", "r">>, <<"f", "u", "n">>,
     <<"i", "f">>, <<"n", "i", "l">>, <<"o", "r">>,
     <<"p", "r", "i", "n", "t">>, <<"r", "e", "t", "u", "r", "n">>,
     <<"s", "u", "p", "e", "r">>, <<"t", "h", "i", "s">>,
     <<"t", "r", "u", "e">>, <<"v", "a", "r">>, <<"w", "h", "i", "l", "e">>}

\* A letter, a digit or an underscore.
WordChar(c) == c \in Letters \cup Digits \cup {"_"}

\* C12: the identifier sub-scan consumes the maximal run of letters, digits
\* and underscores that starts at a letter or underscore: while the next
\* character is one of them it is consumed and nothing is emitted; at the
\* first (ASCII) character that is not, or at end of input, one token is
\* emitted whose lexeme is the whole run, a keyword token if and only if the
\* lexeme is one of the 16 reserved words and otherwise Identifier with the
\* lexeme as payload.  "class" gives Class, "or" gives Or, and "classify"
\* gives Identifier(classify), each followed by Eof alone.
C12_IdentifierLongestMatch ==
    /\ Cardinality(ReservedWords) = 16
    /\ []((Returned /\ source = KeywordSample)
            => /\ TypesOf(tokens) = <<<<"Class">>, <<"Eof">>>>
               /\ tokens[1].lexeme = KeywordSample)
    /\ []((Returned /\ source = IdentifierSample)
            => /\ TypesOf(tokens)
                    = <<<<"Identifier", IdentifierSample>>, <<"Eof">>>>
               /\ tokens[1].lexeme = IdentifierSample)
    /\ [][(pc = "identifier"
            /\ (~is_at_end(current) => source[current + 1] # LeadByte))
          => IF ~is_at_end(current) /\ WordChar(source[current + 1])
             THEN /\ pc' = "identifier"
                  /\ current' = current + 1
                  /\ tokens' = tokens
             ELSE LET lexeme == SubSeq(source, start + 1, current)
                  IN  /\ pc' = "loop"
                      /\ current' = current
                      /\ Len(tokens') = Len(tokens) + 1
                      /\ SubSeq(tokens', 1, Len(tokens)) = tokens
                      /\ Last(tokens').lexeme = lexeme
                      /\ lexeme # <<>>
                      /\ lexeme[1] \in Letters \cup {"_"}
                      /\ \A i \in 1..Len(lexeme) : WordChar(lexeme[i])
                      /\ (lexeme \in ReservedWords
                            <=> Len(Last(tokens').token_type) = 1)
                      /\ lexeme \notin ReservedWords
                            => Last(tokens').token_type = <<"Identifier", lexeme>>
                      /\ lexeme = <<"o", "r">>
                            => Last(tokens').token_type = <<"Or">>]_vars

\* C12 witness: "classify" has been scanned to Identifier(classify), Eof.
C12_Witness ==
    /\ pc = "returned"
    /\ source = IdentifierSample
    /\ Len(tokens) = 2
    /\ tokens[1].token_type = <<"Identifier", IdentifierSample>>

\* The next byte to read is not the first byte of a non-ASCII character.
NextIsAscii(cur) == cur < Len(source) => source[cur + 1] # LeadByte

\* C13: a '/' followed by '/' opens a comment: both are consumed and no
\* token is emitted; the comment loop then consumes every character up to,
\* not including, the next newline or the end of input, emitting nothing
\* and leaving the line counter alone; a '/' followed by anything else (or
\* by nothing) emits Slash.  The newline that ends the comment is consumed
\* by the next pass of the main loop, which adds one to the line counter.
\* "// comment\n+" returns Plus with line 2, then Eof.
C13_LineComment ==
    /\ []((Returned /\ source = CommentSample)
            => /\ TypesOf(tokens) = <<<<"Plus">>, <<"Eof">>>>
               /\ tokens[1].lexeme = <<"+">>
               /\ tokens[1].line = 2)
    /\ [][/\ (pc = "scan_token" /\ ~is_at_end(current)
                /\ source[current + 1] = "/" /\ NextIsAscii(current + 1))
             => IF current + 2 <= Len(source) /\ source[current + 2] = "/"
                THEN /\ pc' = "comment"
                     /\ current' = current + 2
                     /\ tokens' = tokens
                     /\ line' = line
                ELSE /\ pc' = "loop"
                     /\ current' = current + 1
                     /\ Len(tokens') = Len(tokens) + 1
                     /\ Last(tokens').token_type = <<"Slash">>
                     /\ Last(tokens').lexeme = <<"/">>
          /\ (pc = "comment" /\ NextIsAscii(current))
             => /\ tokens' = tokens
                /\ line' = line
                /\ reports' = reports
                /\ IF ~is_at_end(current) /\ source[current + 1] # NEWLINE
                   THEN pc' = "comment" /\ current' = current + 1
                   ELSE pc' = "loop" /\ current' = current
          /\ (pc = "scan_token" /\ ~is_at_end(current)
                /\ source[current + 1] = NEWLINE)
             => /\ pc' = "loop"
                /\ current' = current + 1
                /\ line' = line + 1
                /\ tokens' = tokens]_vars

\* C13 witness: "// comment\n+" has been scanned to Plus on line 2, Eof.
C13_Witness ==
    /\ pc = "returned"
    /\ source = CommentSample
    /\ Len(tokens) = 2
    /\ tokens[1].token_type = <<"Plus">>
    /\ tokens[1].line = 2

\* C14: in every reachable state of a scan (between two steps, after the
\* return, and where a panic has stopped it) 0 <= start <= current <=
\* length(source): no step moves current past the end of the source or
\* start past current.
C14_CursorBounds ==
    /\ 0 <= start
    /\ start <= current
    /\ current <= Len(source)

\* C14 witness: a sub-scan that began after another token has consumed the
\* text to its very end.
C14_Witness ==
    /\ pc = "identifier"
    /\ tokens # <<>>
    /\ 0 < start
    /\ start < current
    /\ current = Len(source)

\* The tokens add_token has pushed: all but the end-marker.
NonEof(toks) == SelectSeq(toks, LAMBDA t : t.token_type # <<"Eof">>)

\* C15: every non-Eof token's lexeme is the substring source[start..current]
\* of the moment add_token pushed it; the [start, current) ranges of the
\* tokens, in the order of the list, are non-empty and each ends at or before
\* the beginning of the next (so disjoint and strictly increasing), the last
\* ending at or before the read head; and a step leaves the tokens already
\* in the list as they are, adding at most one at the end.
C15_LexemesInSourceOrder ==
    /\ [](/\ Len(spans) = Len(NonEof(tokens))
          /\ \A i \in 1..Len(spans) :
                /\ 0 <= spans[i][1]
                /\ spans[i][1] < spans[i][2]
                /\ spans[i][2] <= current
                /\ NonEof(tokens)[i].lexeme
                        = SubSeq(source, spans[i][1] + 1, spans[i][2])
                /\ NonEof(tokens)[i] = tokens[i]
          /\ \A i \in 1..(Len(spans) - 1) : spans[i][2] <= spans[i + 1][1])
    /\ [][/\ Len(tokens') \in {Len(tokens), Len(tokens) + 1}
          /\ SubSeq(tokens', 1, Len(tokens)) = tokens
          /\ (Len(tokens') > Len(tokens)
                /\ Last(tokens').token_type # <<"Eof">>)
             => /\ Last(tokens').lexeme = SubSeq(source, start + 1, current')
                /\ Last(spans') = <<start, current'>>
                /\ start' = start
                /\ source' = source]_vars

\* C15 witness: a scan has returned two tokens whose ranges do not touch
\* (a character that makes no token lies between them), then Eof.
C15_Witness ==
    /\ pc = "returned"
    /\ Len(spans) = 2
    /\ spans[1][2] < spans[2][1]

\* C16: in prompt mode any number of non-empty lines run one after another:
\* the reset of the had-error indicator after a line never faults, and the
\* second and later (ASCII) lines are processed without fault, whether or
\* not earlier lines had errors.
C16_PromptLinesRunWithoutFault ==
    /\ fault # "reset"
    /\ (scanners >= 2 /\ IsAscii(source)) => pc # "panic"

\* The line of the text that offset cur lies on: 1 + the newline characters
\* in source[0..cur].
LineAt(cur) == 1 + NewlinesIn(SubSeq(source, 1, cur))

\* C17: the line counter is always 1 + the number of newline characters in
\* source[0..current], and every token (Eof included) is stamped with it at
\* the moment it is emitted: newlines inside a string literal count, and a
\* comment stops before the newline that ends it.  So a string literal that
\* spans several lines carries the line on which it closes, and line is
\* >= 1 and non-decreasing along the token sequence.
C17_TokenLines ==
    /\ [](/\ line = LineAt(current)
          /\ \A i \in 1..Len(tokens) : tokens[i].line >= 1
          /\ \A i \in 1..(Len(tokens) - 1) : tokens[i].line <= tokens[i + 1].line
          /\ \A i \in 1..Len(spans) : tokens[i].line = LineAt(spans[i][2])
          /\ \A i \in 1..Len(spans) :
                tokens[i].token_type[1] = "String"
                    => tokens[i].line
                        = LineAt(spans[i][1]) + NewlinesIn(tokens[i].lexeme))
    /\ [][Len(tokens') > Len(tokens)
            => Last(tokens').line = LineAt(current')]_vars

\* C17 witness: a scan has returned a string literal that opens on line 1
\* and closes on line 2, stamped 2, and Eof stamped 2.
C17_Witness ==
    /\ pc = "returned"
    /\ Len(tokens) = 2
    /\ spans[1][1] = 0
    /\ tokens[1].token_type = <<"String", <<NEWLINE>>>>
    /\ tokens[1].line = 2
    /\ tokens[2].line = 2

\* One or more digits, optionally followed by '.' and one or more digits.
NumberShape(s) ==
    \E k \in 1..Len(s) :
        /\ \A i \in 1..k : s[i] \in Digits
        /\ \/ k = Len(s)
           \/ /\ k + 1 < Len(s)
              /\ s[k + 1] = "."
              /\ \A i \in (k + 2)..Len(s) : s[i] \in Digits

\* C18: the float parse of the number sub-scan never fails, whatever the
\* input text: the process never panics in the parse, and every lexeme
\* source[start..current] the sub-scan hands to it (the step out of the
\* number or fraction loop that emits the Number token) is one or more
\* digits, optionally followed by '.' and one or more digits.
C18_ParseNeverFails ==
    /\ [](fault # "parse")
    /\ [](\A i \in 1..Len(tokens) :
            tokens[i].token_type[1] = "Number" => NumberShape(tokens[i].lexeme))
    /\ [][(pc \in {"number", "fraction"} /\ pc' \notin {"number", "fraction", "panic"})
            => /\ pc' = "loop"
               /\ Len(tokens') = Len(tokens) + 1
               /\ Last(tokens').token_type[1] = "Number"
               /\ Last(tokens').lexeme = SubSeq(source, start + 1, current')
               /\ NumberShape(SubSeq(source, start + 1, current'))]_vars

\* C18 witness: "12.34" has been parsed and returned as one Number token
\* over the whole text.
C18_Witness ==
    /\ pc = "returned"
    /\ source = NumberSample
    /\ Len(tokens) = 2
    /\ tokens[1].lexeme = NumberSample
    /\ tokens[1].token_type = <<"Number", <<1234, 2>>>>

\* C19: during scan_tokens on an ASCII input no slice of the source is out
\* of bounds: the process never panics in a slice; scan_token (which begins
\* with advance) is entered with current < length(source), and every step
\* that moves the read head (by advance or matches) starts with current <
\* length(source) and moves it by one or two bytes, never past the end;
\* and whenever a String token is emitted start + 1 <= current - 1.
C19_SlicesInBounds ==
    /\ [](IsAscii(source) => ~(pc = "panic" /\ fault = "slice"))
    /\ []((IsAscii(source) /\ pc = "scan_token") => current < Len(source))
    /\ [][IsAscii(source)
            => /\ current' # current
                    => /\ current < Len(source)
                       /\ current' \in {current + 1, current + 2}
                       /\ current' <= Len(source)
               /\ (Len(tokens') > Len(tokens)
                    /\ Last(tokens').token_type[1] = "String")
                    => /\ start + 1 <= current' - 1
                       /\ current' <= Len(source)]_vars

\* C19 witness: on an ASCII text, the empty string literal (start + 1 =
\* current - 1) has been emitted as a String token before another token.
C19_Witness ==
    /\ pc = "returned"
    /\ IsAscii(source)
    /\ Len(tokens) = 3
    /\ tokens[1].token_type = <<"String", <<>>>>
    /\ spans[1] = <<0, 2>>

\* C20: advance returns the character at the read head and moves current
\* forward by exactly one, so the characters returned by advancing a fresh
\* Scanner over an ASCII text are source[0..current], in order; and a call
\* with the read head at end of input (current = length(source)) returns
\* the null character instead of faulting.
C20_AdvanceReturnsNulAtEnd ==
    /\ []((pc = "advance" /\ IsAscii(source))
            => advanced = SubSeq(source, 1, current))
    /\ [][(pc = "advance" /\ ~is_at_end(current) /\ NextIsAscii(current))
            => /\ current' = current + 1
               /\ advanced' = Append(advanced, source[current + 1])]_vars
    /\ [][(pc = "advance" /\ current = Len(source))
            => /\ pc' = "advance"
               /\ fault' = "none"
               /\ advanced' = Append(advanced, NUL)]_vars

=============================================================================
